---- MODULE Spec2Model ----
(***************************************************************************)
(* Model of the custom-field resolution and select-option matching of      *)
(* kommo-mcp: updateLeadCustomFields (leads/write.ts) together with the    *)
(* read helpers it awaits (leads/read.ts) and updateLead.                  *)
(*                                                                         *)
(* A JavaScript string is a sequence of one-character strings.  A missing  *)
(* (undefined) field_name / field_code is the empty sequence: every use in *)
(* the code (`if (field.field_name)`, `f.field_name?.toLowerCase() || ''`) *)
(* treats undefined and '' alike.                                          *)
(***************************************************************************)
EXTENDS Integers, Sequences, FiniteSets, TLC

\* ---------------------------------------------------------------------
\* Bounds of the model
\* ---------------------------------------------------------------------

\* largest number of keys in one caller-supplied field map
MaxKeys == 2

\* largest number of options of the select field the matcher is run on alone
MaxOptions == 2

\* number of calls of a linking function in flight for the same pair
MaxCallers == 2

\* largest page number and largest limit a caller passes to a list operation
MaxPage == 3
MaxLimit == 251

\* ---------------------------------------------------------------------
\* JavaScript values that are not strings
\* ---------------------------------------------------------------------

\* Number(s) of a string that is not a numeric literal; outside the range
\* of every number the model's strings can denote
NaN == -1000000

\* Map.get() miss, absent property; outside the same range
undefined == -1000001

isNaN(x) == x = NaN

\* ToBoolean of a number-or-undefined: `if (fieldId)`
Truthy(x) == x # undefined /\ x # NaN /\ x # 0

\* ---------------------------------------------------------------------
\* Characters
\* ---------------------------------------------------------------------

UpperChars == {"A", "B", "C", "D"}
LowerChars == {"a", "b", "c", "d", "e", "f", "n", "q", "x", "y", "z"}
DigitChars == {"0", "1", "2", "3", "4", "5", "6", "7", "8", "9"}

\* \s of a JavaScript regular expression (and of String.prototype.trim)
IsSpace(c) == c = " "

\* \w of a JavaScript regular expression: ASCII letters, digits, underscore
IsWord(c) == c \in UpperChars \cup LowerChars \cup DigitChars \cup {"_"}

LowerChar(c) ==
    CASE c = "A" -> "a"
      [] c = "B" -> "b"
      [] c = "C" -> "c"
      [] c = "D" -> "d"
      [] OTHER -> c

\* the digit character of a number 0..9
DigitName(n) ==
    CASE n = 0 -> "0" [] n = 1 -> "1" [] n = 2 -> "2" [] n = 3 -> "3"
      [] n = 4 -> "4" [] n = 5 -> "5" [] n = 6 -> "6" [] n = 7 -> "7"
      [] n = 8 -> "8" [] n = 9 -> "9"

DigitVal(c) ==
    CASE c = "0" -> 0 [] c = "1" -> 1 [] c = "2" -> 2 [] c = "3" -> 3
      [] c = "4" -> 4 [] c = "5" -> 5 [] c = "6" -> 6 [] c = "7" -> 7
      [] c = "8" -> 8 [] c = "9" -> 9

\* localeCompare (root collation) compares in levels: first the base
\* letters (white space, punctuation, digits, letters), then case with
\* lower case first
PrimaryRank(c) ==
    CASE c = " " -> 0
      [] c = "_" -> 1
      [] c = "-" -> 2
      [] c \in DigitChars -> 10 + DigitVal(c)
      [] c \in {"a", "A"} -> 20
      [] c \in {"b", "B"} -> 21
      [] c \in {"c", "C"} -> 22
      [] c \in {"d", "D"} -> 23
      [] c = "e" -> 24 [] c = "f" -> 25 [] c = "n" -> 26 [] c = "q" -> 27
      [] c = "x" -> 28 [] c = "y" -> 29 [] c = "z" -> 30
      [] OTHER -> 99

TertiaryRank(c) == IF c \in UpperChars THEN 1 ELSE 0

\* ---------------------------------------------------------------------
\* String operations
\* ---------------------------------------------------------------------

toLowerCase(s) == [k \in 1..Len(s) |-> LowerChar(s[k])]

RECURSIVE trimStart(_)
trimStart(s) ==
    IF s # <<>> /\ IsSpace(Head(s)) THEN trimStart(Tail(s)) ELSE s

RECURSIVE trimEnd(_)
trimEnd(s) ==
    IF s # <<>> /\ IsSpace(s[Len(s)]) THEN trimEnd(SubSeq(s, 1, Len(s) - 1)) ELSE s

trim(s) == trimEnd(trimStart(s))

\* s.includes(t)
includes(s, t) ==
    \E k \in 0..(Len(s) - Len(t)) : SubSeq(s, k + 1, k + Len(t)) = t

\* s.replace(/[^\w\s]/g, ' ')
replaceNonWord(s) ==
    [k \in 1..Len(s) |-> IF IsWord(s[k]) \/ IsSpace(s[k]) THEN s[k] ELSE " "]

\* s.replace(/\s+/g, ' ')
RECURSIVE collapseSpaces(_)
collapseSpaces(s) ==
    IF s = <<>> THEN <<>>
    ELSE IF IsSpace(Head(s))
         THEN <<" ">> \o collapseSpaces(trimStart(s))
         ELSE <<Head(s)>> \o collapseSpaces(Tail(s))

\* const normalize = (s) => s.toLowerCase().replace(/[^\w\s]/g, ' ').replace(/\s+/g, ' ').trim()
normalize(s) == trim(collapseSpaces(replaceNonWord(toLowerCase(s))))

\* the characters of s up to the first white space
RECURSIVE firstToken(_)
firstToken(s) ==
    IF s = <<>> \/ IsSpace(Head(s)) THEN <<>>
    ELSE <<Head(s)>> \o firstToken(Tail(s))

\* s.split(/\s+/)
RECURSIVE split(_)
split(s) ==
    LET tok  == firstToken(s)
        rest == SubSeq(s, Len(tok) + 1, Len(s))
    IN  IF rest = <<>> THEN <<tok>>
        ELSE <<tok>> \o split(trimStart(rest))

AllDigits(s) == \A k \in 1..Len(s) : s[k] \in DigitChars

RECURSIVE DecimalValue(_)
DecimalValue(s) ==
    IF s = <<>> THEN 0
    ELSE 10 * DecimalValue(SubSeq(s, 1, Len(s) - 1)) + DigitVal(s[Len(s)])

\* Number(s) for a string over the model's characters: white space is
\* stripped, the empty string is 0, an optionally negated run of digits is
\* its decimal value, anything else is NaN
Number(s) ==
    LET t == trim(s)
    IN  IF t = <<>> THEN 0
        ELSE IF AllDigits(t) THEN DecimalValue(t)
        ELSE IF Head(t) = "-" /\ Len(t) > 1 /\ AllDigits(Tail(t))
             THEN 0 - DecimalValue(Tail(t))
        ELSE NaN

\* lexicographic order of two sequences of numbers
RECURSIVE seqLess(_, _)
seqLess(a, b) ==
    IF b = <<>> THEN FALSE
    ELSE IF a = <<>> THEN TRUE
    ELSE IF Head(a) # Head(b) THEN Head(a) < Head(b)
    ELSE seqLess(Tail(a), Tail(b))

\* a.localeCompare(b) < 0
localeLess(a, b) ==
    LET p(s) == [k \in 1..Len(s) |-> PrimaryRank(s[k])]
        r(s) == [k \in 1..Len(s) |-> TertiaryRank(s[k])]
    IN  IF p(a) # p(b) THEN seqLess(p(a), p(b))
        ELSE seqLess(r(a), r(b))

\* ---------------------------------------------------------------------
\* leads/read.ts: what the read helpers compute from a response
\* ---------------------------------------------------------------------

\* getLeadCustomFields: ok is FALSE when getLead failed (request threw, or
\* no lead came back); custom_fields_values ?? [] otherwise
getLeadCustomFields(ok, custom_fields_values) ==
    IF ~ok THEN [success |-> FALSE, customFields |-> <<>>]
    ELSE [success |-> TRUE, customFields |-> custom_fields_values]

\* Array.prototype.find over the answers of its predicate: index of the
\* first element at or after k for which the predicate held, 0 when none
RECURSIVE findIndex(_, _)
findIndex(hits, k) ==
    IF k > Len(hits) THEN 0
    ELSE IF hits[k] THEN k
    ELSE findIndex(hits, k + 1)

\* the search returning the last field of the snapshot that contains the
\* term instead of the first
searchLeadCustomField_lastMatch(searchTerm, result) ==
    IF ~result.success THEN [success |-> FALSE, field_id |-> undefined]
    ELSE
      LET customFields == result.customFields
          searchName == toLowerCase(searchTerm)
          byName(f) == \/ includes(toLowerCase(f.field_name), searchName)
                       \/ includes(toLowerCase(f.field_code), searchName)
          nameHits == {k \in 1..Len(customFields) : byName(customFields[k])}
      IN  IF nameHits # {}
          THEN [success |-> TRUE,
                field_id |-> customFields[CHOOSE k \in nameHits :
                                             \A j \in nameHits : j <= k].field_id]
          ELSE [success |-> FALSE, field_id |-> undefined]

\* searchLeadCustomField, given the outcome of its own getLeadCustomFields
\* call: field_id of the field found, in [success, field_id]
searchLeadCustomField(searchTerm, result) ==
    IF ~result.success THEN [success |-> FALSE, field_id |-> undefined]
    ELSE
      LET customFields == result.customFields
          byId(f) == f.field_id = Number(searchTerm)
          idHit == IF ~isNaN(Number(searchTerm))
                   THEN findIndex([k \in 1..Len(customFields) |-> byId(customFields[k])], 1)
                   ELSE 0
          searchName == toLowerCase(searchTerm)
          byName(f) == \/ includes(toLowerCase(f.field_name), searchName)
                       \/ includes(toLowerCase(f.field_code), searchName)
          nameHit == findIndex([k \in 1..Len(customFields) |-> byName(customFields[k])], 1)
      IN  IF idHit # 0
          THEN [success |-> TRUE, field_id |-> result.customFields[idHit].field_id]
          ELSE IF nameHit # 0
          THEN [success |-> TRUE, field_id |-> result.customFields[nameHit].field_id]
          ELSE [success |-> FALSE, field_id |-> undefined]

\* getLeadCustomFieldsMetadata: ok is FALSE when the request threw or the
\* response had no _embedded.custom_fields; fields without enums are dropped
getLeadCustomFieldsMetadata(ok, custom_fields) ==
    IF ~ok THEN [success |-> FALSE, fields |-> <<>>]
    ELSE [success |-> TRUE,
          fields |-> SelectSeq(custom_fields, LAMBDA f : Len(f.enums) > 0)]

\* the comparator of options.sort: negative when a goes before b
compareOptions(a, b) ==
    IF a.sort # undefined /\ b.sort # undefined
    THEN a.sort - b.sort
    ELSE IF localeLess(a.value, b.value) THEN -1
    ELSE IF localeLess(b.value, a.value) THEN 1
    ELSE 0

\* Array.prototype.sort is stable: insertion from the right
RECURSIVE insertOption(_, _)
insertOption(sorted, x) ==
    IF sorted = <<>> THEN <<x>>
    ELSE IF compareOptions(x, sorted[Len(sorted)]) < 0
         THEN insertOption(SubSeq(sorted, 1, Len(sorted) - 1), x)
                  \o <<sorted[Len(sorted)]>>
         ELSE sorted \o <<x>>

\* the options left in the order of the response
sortOptions_unsorted(opts) == opts

RECURSIVE sortOptions(_)
sortOptions(opts) ==
    IF opts = <<>> THEN <<>>
    ELSE insertOption(sortOptions(SubSeq(opts, 1, Len(opts) - 1)), opts[Len(opts)])

\* getSelectFieldOptions without the check of the field's type
getSelectFieldOptions_anyType(fieldId, metadataResult) ==
    LET none == [success |-> FALSE, fieldId |-> fieldId, fieldName |-> <<>>,
                 options |-> <<>>]
        hit  == findIndex([k \in 1..Len(metadataResult.fields) |->
                              metadataResult.fields[k].id = fieldId], 1)
        field == metadataResult.fields[hit]
        options == [k \in 1..Len(field.enums) |->
                      [value   |-> field.enums[k].value,
                       enum_id |-> field.enums[k].id,
                       sort    |-> field.enums[k].sort]]
    IN  IF ~metadataResult.success THEN none
        ELSE IF hit = 0 THEN none
        ELSE [success |-> TRUE, fieldId |-> fieldId, fieldName |-> field.name,
              options |-> sortOptions(options)]

\* getSelectFieldOptions, given the outcome of its getLeadCustomFieldsMetadata
\* call.  options = <<>> stands for an absent options property.
getSelectFieldOptions(fieldId, metadataResult) ==
    LET none == [success |-> FALSE, fieldId |-> fieldId, fieldName |-> <<>>,
                 options |-> <<>>]
        hit  == findIndex([k \in 1..Len(metadataResult.fields) |->
                              metadataResult.fields[k].id = fieldId], 1)
        field == metadataResult.fields[hit]
        options == [k \in 1..Len(field.enums) |->
                      [value   |-> field.enums[k].value,
                       enum_id |-> field.enums[k].id,
                       sort    |-> field.enums[k].sort]]
    IN  IF ~metadataResult.success THEN none
        ELSE IF hit = 0 THEN none
        ELSE IF field.type # "select" /\ field.type # "multiselect"
             THEN [none EXCEPT !.fieldName = field.name]
        ELSE [success |-> TRUE, fieldId |-> fieldId, fieldName |-> field.name,
              options |-> sortOptions(options)]

\* ---------------------------------------------------------------------
\* leads/write.ts: option matching inside updateLeadCustomFields
\* ---------------------------------------------------------------------

\* the word filter keeping every token, short ones included
searchWords_all(normalizedSearch) ==
    SelectSeq(split(normalizedSearch), LAMBDA w : Len(w) > 0)

\* normalizedSearch.split(/\s+/).filter(w => w.length > 2)
searchWords(normalizedSearch) ==
    SelectSeq(split(normalizedSearch), LAMBDA w : Len(w) > 2)

\* the predicate refusing an empty search value before any rule is tried
optionMatches_skipsEmpty(opt, value) ==
    LET searchValue == trim(toLowerCase(value))
        normalizedSearch == normalize(searchValue)
        optValue == trim(toLowerCase(opt.value))
        normalizedOpt == normalize(optValue)
        words == searchWords(normalizedSearch)
    IN  /\ searchValue # <<>>
        /\ \/ optValue = searchValue \/ normalizedOpt = normalizedSearch
           \/ includes(optValue, searchValue) \/ includes(searchValue, optValue)
           \/ includes(normalizedOpt, normalizedSearch)
           \/ includes(normalizedSearch, normalizedOpt)
           \/ /\ Len(words) > 0
              /\ \A k \in 1..Len(words) : includes(normalizedOpt, words[k])

\* the predicate handed to optionsResult.options.find
optionMatches(opt, value) ==
    LET searchValue == trim(toLowerCase(value))
        normalizedSearch == normalize(searchValue)
        optValue == trim(toLowerCase(opt.value))
        normalizedOpt == normalize(optValue)
        words == searchWords(normalizedSearch)
    IN  \/ optValue = searchValue \/ normalizedOpt = normalizedSearch
        \/ includes(optValue, searchValue) \/ includes(searchValue, optValue)
        \/ includes(normalizedOpt, normalizedSearch)
        \/ includes(normalizedSearch, normalizedOpt)
        \/ /\ Len(words) > 0
           /\ \A k \in 1..Len(words) : includes(normalizedOpt, words[k])

\* optionsResult.options.find(...): index of the matched option, 0 if none
matchedOption(options, value) ==
    findIndex([k \in 1..Len(options) |-> optionMatches(options[k], value)], 1)

\* optionsResult.options.slice(0, 5).map(opt => opt.value)
suggestions(options) ==
    [k \in 1..(IF Len(options) < 5 THEN Len(options) ELSE 5) |-> options[k].value]

\* one element of custom_fields_values; enum_id = undefined when absent
plainEntry(id, value) ==
    [field_id |-> id, value |-> value, enum_id |-> undefined]

\* the matched option re-emitted in the lower-cased form it was compared in
enumEntry_optValue(id, opt) ==
    [field_id |-> id, value |-> trim(toLowerCase(opt.value)), enum_id |-> opt.enum_id]

enumEntry(id, opt) ==
    [field_id |-> id, value |-> opt.value, enum_id |-> opt.enum_id]

\* errors.push({field, error: `Value "${value}" is not valid for select field
\* "${fieldName || id}". Valid options include: ${suggestions}${'...'}`})
notValidError(fieldKey, value, optionsResult, id) ==
    [field |-> fieldKey, kind |-> "not valid", value |-> value,
     fieldName |-> optionsResult.fieldName, fieldId |-> id,
     suggestions |-> suggestions(optionsResult.options),
     ellipsis |-> Len(optionsResult.options) > 5]

\* errors.push({field, error: `Field not found: ${fieldKey}. ...`})
notFoundError(fieldKey) ==
    [field |-> fieldKey, kind |-> "not found", value |-> <<>>,
     fieldName |-> <<>>, fieldId |-> undefined,
     suggestions |-> <<>>, ellipsis |-> FALSE]

\* the main branch remembering the fields it has served: a field that
\* already has a payload entry is not matched again
mainBranch_oncePerField(fieldKey, value, id, optionsResult, payload, errs) ==
    IF \E k \in 1..Len(payload) : payload[k].field_id = id
    THEN [payload |-> payload, errors |-> errs]
    ELSE IF optionsResult.success /\ Len(optionsResult.options) > 0
    THEN LET m == matchedOption(optionsResult.options, value)
         IN  IF m # 0
             THEN [payload |-> Append(payload, enumEntry(id, optionsResult.options[m])),
                   errors  |-> errs]
             ELSE [payload |-> payload,
                   errors  |-> Append(errs, notValidError(fieldKey, value, optionsResult, id))]
    ELSE [payload |-> Append(payload, plainEntry(id, value)), errors |-> errs]

\* the main branch reporting the key when the options could not be had
mainBranch_failsClosed(fieldKey, value, id, optionsResult, payload, errs) ==
    IF optionsResult.success /\ Len(optionsResult.options) > 0
    THEN LET m == matchedOption(optionsResult.options, value)
         IN  IF m # 0
             THEN [payload |-> Append(payload, enumEntry(id, optionsResult.options[m])),
                   errors  |-> errs]
             ELSE [payload |-> payload,
                   errors  |-> Append(errs, notValidError(fieldKey, value, optionsResult, id))]
    ELSE IF optionsResult.success
    THEN [payload |-> Append(payload, plainEntry(id, value)), errors |-> errs]
    ELSE [payload |-> payload,
          errors |-> Append(errs, notValidError(fieldKey, value, optionsResult, id))]

\* the main branch keeping one payload entry per field id: an entry for a
\* field that already has one takes its place
mainBranch_replacesEntry(fieldKey, value, id, optionsResult, payload, errs) ==
    LET others == SelectSeq(payload, LAMBDA e : e.field_id # id)
    IN  IF optionsResult.success /\ Len(optionsResult.options) > 0
        THEN LET m == matchedOption(optionsResult.options, value)
             IN  IF m # 0
                 THEN [payload |-> Append(others, enumEntry(id, optionsResult.options[m])),
                       errors  |-> errs]
                 ELSE [payload |-> payload,
                       errors  |-> Append(errs, notValidError(fieldKey, value, optionsResult, id))]
        ELSE [payload |-> Append(others, plainEntry(id, value)), errors |-> errs]

\* the main branch with an unmatched value dropped without a diagnostic
mainBranch_silentNoMatch(fieldKey, value, id, optionsResult, payload, errs) ==
    IF optionsResult.success /\ Len(optionsResult.options) > 0
    THEN LET m == matchedOption(optionsResult.options, value)
         IN  IF m # 0
             THEN [payload |-> Append(payload, enumEntry(id, optionsResult.options[m])),
                   errors  |-> errs]
             ELSE [payload |-> payload, errors |-> errs]
    ELSE [payload |-> Append(payload, plainEntry(id, value)), errors |-> errs]

\* the `if (fieldId)` branch once getSelectFieldOptions has answered:
\* [payload, errors] after the entry
mainBranch(fieldKey, value, id, optionsResult, payload, errs) ==
    IF optionsResult.success /\ Len(optionsResult.options) > 0
    THEN LET m == matchedOption(optionsResult.options, value)
         IN  IF m # 0
             THEN [payload |-> Append(payload, enumEntry(id, optionsResult.options[m])),
                   errors  |-> errs]
             ELSE [payload |-> payload,
                   errors  |-> Append(errs, notValidError(fieldKey, value, optionsResult, id))]
    ELSE [payload |-> Append(payload, plainEntry(id, value)), errors |-> errs]

\* the `else` branch sending the caller's text with the matched enum_id
fallbackBranch_rawValue(fieldKey, value, numericKey, optionsResult, payload, errs) ==
    IF optionsResult.success /\ Len(optionsResult.options) > 0
    THEN LET m == matchedOption(optionsResult.options, value)
         IN  IF m # 0
             THEN [payload |-> Append(payload,
                                      [field_id |-> numericKey, value |-> value,
                                       enum_id |-> optionsResult.options[m].enum_id]),
                   errors  |-> errs]
             ELSE [payload |-> payload,
                   errors  |-> Append(errs, notValidError(fieldKey, value, optionsResult, numericKey))]
    ELSE [payload |-> Append(payload, plainEntry(numericKey, value)), errors |-> errs]

\* the `else` branch without the numeric fallback: every key that reaches
\* it is reported as not found
fallbackBranch_notFound(fieldKey, value, numericKey, optionsResult, payload, errs) ==
    [payload |-> payload, errors |-> Append(errs, notFoundError(fieldKey))]

\* the `else` branch for a key that looks like a number, with its own copy
\* of the matching code
fallbackBranch(fieldKey, value, numericKey, optionsResult, payload, errs) ==
    IF optionsResult.success /\ Len(optionsResult.options) > 0
    THEN LET m == matchedOption(optionsResult.options, value)
         IN  IF m # 0
             THEN [payload |-> Append(payload, enumEntry(numericKey, optionsResult.options[m])),
                   errors  |-> errs]
             ELSE [payload |-> payload,
                   errors  |-> Append(errs, notValidError(fieldKey, value, optionsResult, numericKey))]
    ELSE [payload |-> Append(payload, plainEntry(numericKey, value)), errors |-> errs]

\* nameToIdMap after the forEach over existingFields.customFields
RECURSIVE buildNameToIdMap(_)
buildNameToIdMap(customFields) ==
    IF customFields = <<>> THEN <<>>
    ELSE LET f   == customFields[Len(customFields)]
             m0  == buildNameToIdMap(SubSeq(customFields, 1, Len(customFields) - 1))
             set(m, k, v) == SelectSeq(m, LAMBDA e : e[1] # k) \o <<(<<k, v>>)>>
             m1  == IF f.field_name # <<>>
                    THEN set(m0, toLowerCase(f.field_name), f.field_id) ELSE m0
         IN  IF f.field_code # <<>>
             THEN set(m1, toLowerCase(f.field_code), f.field_id) ELSE m1

\* nameToIdMap.get(k)
mapGet(m, k) ==
    LET hit == findIndex([j \in 1..Len(m) |-> m[j][1] = k], 1)
    IN  IF hit = 0 THEN undefined ELSE m[hit][2]

\* a property name that is an array index: enumerated first, in ascending
\* numeric order, by Object.entries
IsArrayIndex(key) ==
    /\ key # <<>>
    /\ AllDigits(key)
    /\ (Len(key) = 1 \/ Head(key) # "0")

RECURSIVE insertIndexKey(_, _)
insertIndexKey(sorted, e) ==
    IF sorted = <<>> THEN <<e>>
    ELSE IF DecimalValue(e[1]) < DecimalValue(sorted[Len(sorted)][1])
         THEN insertIndexKey(SubSeq(sorted, 1, Len(sorted) - 1), e)
                  \o <<sorted[Len(sorted)]>>
         ELSE sorted \o <<e>>

RECURSIVE sortIndexKeys(_)
sortIndexKeys(es) ==
    IF es = <<>> THEN <<>>
    ELSE insertIndexKey(sortIndexKeys(SubSeq(es, 1, Len(es) - 1)), es[Len(es)])

\* Object.entries(fields) of the object whose properties were created in
\* the order of the sequence fs of <<key, value>> pairs
ObjectEntries(fs) ==
    sortIndexKeys(SelectSeq(fs, LAMBDA e : IsArrayIndex(e[1])))
        \o SelectSeq(fs, LAMBDA e : ~IsArrayIndex(e[1]))

\* ---------------------------------------------------------------------
\* The CRM account and the caller's inputs the model ranges over
\* ---------------------------------------------------------------------

\* all orderings of a finite set, as sequences
Orderings(S) ==
    {q \in [1..Cardinality(S) -> S] : \A a, b \in 1..Cardinality(S) : a # b => q[a] # q[b]}

\* option values of the select field 1, each with its enum id
EnumIdOf(v) ==
    CASE v = <<"a", "b">> -> 101
      [] v = <<"a", "b", " ", "c">> -> 102
      [] v = <<"A", "-", "b">> -> 103
      [] v = <<"a", "b", "c", " ", "d", "e", "f">> -> 104

OptionFamilies ==
    { {<<"a", "b">>, <<"a", "b", " ", "c">>},
      {<<"A", "-", "b">>, <<"a", "b", "c", " ", "d", "e", "f">>} }

\* the enums of field 1 as the API returns them: the values in any order;
\* either every enum carries a sort (descending along the response, so that
\* sorting reverses it) or none does
Field1Enums ==
    { [k \in 1..Len(q) |-> [id |-> EnumIdOf(q[k]), value |-> q[k],
                            sort |-> IF sorted THEN 10 * (Len(q) - k) ELSE undefined]]
        : q \in UNION {Orderings(F) : F \in OptionFamilies}, sorted \in BOOLEAN }
    \cup { <<>> }

\* field 2: a multiselect with six options, returned in reverse sort order
Field2 ==
    [id |-> 2, name |-> <<"x", "y">>, type |-> "multiselect",
     enums |-> [k \in 1..6 |->
                  [id |-> 200 + k, value |-> <<"x", DigitName(k)>>, sort |-> 70 - 10 * k]]]

\* field 3: a radiobutton, which has enums but is no select field
Field3 ==
    [id |-> 3, name |-> <<"c", "d">>, type |-> "radiobutton",
     enums |-> << [id |-> 301, value |-> <<"a", "b">>, sort |-> 10] >>]

\* GET /leads/custom_fields: _embedded.custom_fields
Catalogs ==
    { << [id |-> 1, name |-> <<"C", "a">>, type |-> "select", enums |-> e],
         Field2, Field3 >> : e \in Field1Enums }

\* GET /leads/{id}: custom_fields_values of the lead (only fields that hold
\* a value); field 7's name contains the numeral 1, the names of fields 1
\* and 8 both contain "ca"
Leads ==
    { <<>>,
      << [field_id |-> 7, field_name |-> <<"n", "1">>, field_code |-> <<>>],
         [field_id |-> 1, field_name |-> <<"C", "a">>, field_code |-> <<"C", "A", "1">>],
         [field_id |-> 8, field_name |-> <<"c", "a", "b">>, field_code |-> <<>>] >> }

\* the <<key, value>> pairs a caller's field map is made of
EntryPool ==
    { << <<"1">>, <<"A", "B">> >>,
      << <<"1">>, <<"d", "e", "f", " ", "a", "b", "c">> >>,
      << <<"c", "a">>, <<"a", " ", "b">> >>,
      << <<"C", "a">>, <<"d", "e", "f", " ", "a", "b", "c">> >>,
      << <<"2">>, <<"z", "z">> >>,
      << <<"q", "q">>, <<"A", "B">> >>,
      << <<"9">>, <<"z", "z">> >>,
      << <<"3">>, <<"A", "B">> >>,
      << <<>>, <<"z", "z">> >> }

\* field maps: up to MaxKeys pairs with pairwise different keys, in the
\* order the caller wrote them
FieldMaps ==
    UNION { {q \in [1..n -> EntryPool] : \A a, b \in 1..n : a # b => q[a][1] # q[b][1]}
              : n \in 0..MaxKeys }

\* ---------------------------------------------------------------------
\* State
\* ---------------------------------------------------------------------

VARIABLES
    lead,               \* the CRM's custom_fields_values of the lead
    catalog,            \* the CRM's lead custom-field definitions
    fields,             \* the caller's field map
    pc,                 \* where updateLeadCustomFields stands
    entries,            \* Object.entries(fields)
    idx,                \* position of the for loop in entries (1-based)
    fieldId,            \* fieldId of the entry being processed
    nameToIdMap,
    customFieldsValues,
    errors,
    result,             \* the value returned, once pc = "done"
    calls,              \* functions of read.ts / write.ts invoked so far
    requests,           \* HTTP requests issued so far
    linkFn,             \* the linking function being called
    links,              \* the CRM's links of the source entity
    linkPc,             \* where each call of the linking function stands
    linkResult,         \* what each call returned
    linkRequests,       \* HTTP requests issued by the linking calls
    params,             \* the argument of normalizePagination
    pagination,         \* what normalizePagination returned
    suspended           \* the locals of a second invocation waiting at an await

updateVars == <<lead, catalog, fields, pc, entries, idx, fieldId, nameToIdMap,
                customFieldsValues, errors, result, calls, requests>>

linkVars == <<linkFn, links, linkPc, linkResult, linkRequests>>

pageVars == <<params, pagination>>

vars == <<updateVars, linkVars, pageVars, suspended>>

NoResult == [success |-> FALSE, updatedFields |-> undefined,
             errorsDefined |-> FALSE, errors |-> <<>>, error |-> "pending"]

\* no second invocation
NoSuspended == [pc |-> "none"]

\* no updateLeadCustomFields invocation
UpdateIdle ==
    /\ suspended = NoSuspended
    /\ lead = <<>>
    /\ catalog = <<>>
    /\ fields = <<>>
    /\ pc = "idle"
    /\ entries = <<>>
    /\ idx = 0
    /\ fieldId = undefined
    /\ nameToIdMap = <<>>
    /\ customFieldsValues = <<>>
    /\ errors = <<>>
    /\ result = NoResult
    /\ calls = <<>>
    /\ requests = <<>>

\* no call of a linking function
LinkIdle ==
    /\ linkFn = "none"
    /\ links = {}
    /\ linkPc = <<>>
    /\ linkResult = <<>>
    /\ linkRequests = <<>>

\* no call of normalizePagination
PageIdle ==
    /\ params = [page |-> undefined, limit |-> undefined]
    /\ pagination = [page |-> undefined, limit |-> undefined]

Init ==
    /\ lead \in Leads
    /\ catalog \in Catalogs
    /\ fields \in FieldMaps
    /\ pc = "start"
    /\ entries = <<>>
    /\ idx = 0
    /\ fieldId = undefined
    /\ nameToIdMap = <<>>
    /\ customFieldsValues = <<>>
    /\ errors = <<>>
    /\ result = NoResult
    /\ calls = <<>>
    /\ requests = <<>>
    /\ suspended = NoSuspended
    /\ LinkIdle
    /\ PageIdle

\* entries of the request log; ok records whether the request was answered
\* with what the caller needs
GetLead(ok) ==
    [method |-> "GET", endpoint |-> "/leads/{id}", body |-> <<>>, ok |-> ok]

GetCustomFields(ok) ==
    [method |-> "GET", endpoint |-> "/leads/custom_fields", body |-> <<>>, ok |-> ok]

PatchLeads(body, ok) ==
    [method |-> "PATCH", endpoint |-> "/leads", body |-> body, ok |-> ok]

\* ---------------------------------------------------------------------
\* updateLeadCustomFields, one action per await
\* ---------------------------------------------------------------------

\* the batch given up when the lead cannot be read
GetExistingFields_abort ==
    /\ pc = "start"
    /\ \E ok \in BOOLEAN :
          LET existingFields == getLeadCustomFields(ok, lead)
          IN  /\ nameToIdMap' = IF existingFields.success
                                THEN buildNameToIdMap(existingFields.customFields)
                                ELSE <<>>
              /\ requests' = Append(requests, GetLead(ok))
              /\ IF ok
                 THEN /\ pc' = "entry"
                      /\ UNCHANGED result
                 ELSE /\ pc' = "done"
                      /\ result' = [success |-> FALSE, updatedFields |-> 0,
                                    errorsDefined |-> FALSE, errors |-> <<>>,
                                    error |-> "Failed to get custom fields"]
    /\ entries' = ObjectEntries(fields)
    /\ idx' = 1
    /\ calls' = Append(calls, "getLeadCustomFields")
    /\ UNCHANGED <<lead, catalog, fields, fieldId, customFieldsValues, errors>>
    /\ UNCHANGED <<linkVars, pageVars, suspended>>

\* lines 205-229: await getLeadCustomFields, build nameToIdMap, start the loop
GetExistingFields ==
    /\ pc = "start"
    /\ \E ok \in BOOLEAN :
          LET existingFields == getLeadCustomFields(ok, lead)
          IN  /\ nameToIdMap' = IF existingFields.success
                                THEN buildNameToIdMap(existingFields.customFields)
                                ELSE <<>>
              /\ requests' = Append(requests, GetLead(ok))
    /\ entries' = ObjectEntries(fields)
    /\ idx' = 1
    /\ pc' = "entry"
    /\ calls' = Append(calls, "getLeadCustomFields")
    /\ UNCHANGED <<lead, catalog, fields, fieldId, customFieldsValues, errors, result>>
    /\ UNCHANGED <<linkVars, pageVars, suspended>>

\* a numeric key looked up among the snapshot's names before being taken
\* as an id
ResolveNumeric_nameFirst ==
    /\ pc = "entry"
    /\ idx <= Len(entries)
    /\ ~isNaN(Number(entries[idx][1]))
    /\ LET searchName == toLowerCase(entries[idx][1])
           byName(f) == \/ includes(toLowerCase(f.field_name), searchName)
                        \/ includes(toLowerCase(f.field_code), searchName)
           hit == findIndex([k \in 1..Len(lead) |-> byName(lead[k])], 1)
       IN  fieldId' = IF hit # 0 THEN lead[hit].field_id ELSE Number(entries[idx][1])
    /\ pc' = "options"
    /\ UNCHANGED <<lead, catalog, fields, entries, idx, nameToIdMap,
                   customFieldsValues, errors, result, calls, requests>>
    /\ UNCHANGED <<linkVars, pageVars, suspended>>

\* lines 231-236: the key is (or looks like) a number
ResolveNumeric ==
    /\ pc = "entry"
    /\ idx <= Len(entries)
    /\ ~isNaN(Number(entries[idx][1]))
    /\ fieldId' = Number(entries[idx][1])
    /\ pc' = "options"
    /\ UNCHANGED <<lead, catalog, fields, entries, idx, nameToIdMap,
                   customFieldsValues, errors, result, calls, requests>>
    /\ UNCHANGED <<linkVars, pageVars, suspended>>

\* lines 237-247 and 386-391: await searchLeadCustomField (which reads the
\* lead again), fall back to nameToIdMap, record "Field not found"
ResolveByName ==
    /\ pc = "entry"
    /\ idx <= Len(entries)
    /\ isNaN(Number(entries[idx][1]))
    /\ \E ok \in BOOLEAN :
          LET fieldKey == entries[idx][1]
              searchResult == searchLeadCustomField(fieldKey, getLeadCustomFields(ok, lead))
              id == IF searchResult.success /\ searchResult.field_id # undefined
                    THEN searchResult.field_id
                    ELSE mapGet(nameToIdMap, toLowerCase(fieldKey))
          IN  /\ fieldId' = id
              /\ requests' = Append(requests, GetLead(ok))
              /\ IF Truthy(id)
                 THEN /\ pc' = "options"
                      /\ UNCHANGED <<idx, errors>>
                 ELSE /\ errors' = Append(errors, notFoundError(fieldKey))
                      /\ idx' = idx + 1
                      /\ pc' = "entry"
    /\ calls' = Append(calls, "searchLeadCustomField")
    /\ UNCHANGED <<lead, catalog, fields, entries, nameToIdMap,
                   customFieldsValues, result>>
    /\ UNCHANGED <<linkVars, pageVars, suspended>>

\* lines 249-315 and 319-385: await getSelectFieldOptions (which fetches the
\* catalog), match the value, push the payload entry or the error
MatchOptions ==
    /\ pc = "options"
    /\ \E ok \in BOOLEAN :
          LET fieldKey == entries[idx][1]
              value == entries[idx][2]
              id == IF Truthy(fieldId) THEN fieldId ELSE Number(fieldKey)
              optionsResult ==
                  getSelectFieldOptions(id, getLeadCustomFieldsMetadata(ok, catalog))
              after == IF Truthy(fieldId)
                       THEN mainBranch(fieldKey, value, id, optionsResult,
                                       customFieldsValues, errors)
                       ELSE fallbackBranch(fieldKey, value, id, optionsResult,
                                           customFieldsValues, errors)
          IN  /\ customFieldsValues' = after.payload
              /\ errors' = after.errors
              /\ requests' = Append(requests, GetCustomFields(ok))
    /\ idx' = idx + 1
    /\ pc' = "entry"
    /\ calls' = Append(calls, "getSelectFieldOptions")
    /\ UNCHANGED <<lead, catalog, fields, entries, fieldId, nameToIdMap, result>>
    /\ UNCHANGED <<linkVars, pageVars, suspended>>

\* updateLead: the outcome of PATCH /leads ("ok": a lead came back,
\* "no lead": the response held none, "error": the request threw)
UpdateOutcomes == {"ok", "no lead", "error"}

updateLead(outcome) ==
    IF outcome = "ok" THEN [success |-> TRUE, error |-> "none"]
    ELSE IF outcome = "no lead"
         THEN [success |-> FALSE, error |-> "Failed to update lead: No lead returned in response"]
         ELSE [success |-> FALSE, error |-> "Update lead error"]

\* all-or-nothing: a batch with a failed key reported as failed
updateReturn_allOrNothing(updateResult, payload, errs) ==
    IF ~updateResult.success \/ Len(errs) > 0
    THEN [success |-> FALSE, updatedFields |-> 0,
          errorsDefined |-> Len(errs) > 0, errors |-> errs,
          error |-> updateResult.error]
    ELSE [success |-> TRUE, updatedFields |-> Len(payload),
          errorsDefined |-> Len(errs) > 0, errors |-> errs,
          error |-> "none"]

\* the resolved entries counted although the write failed
updateReturn_countsUnwritten(updateResult, payload, errs) ==
    [success |-> updateResult.success, updatedFields |-> Len(payload),
     errorsDefined |-> Len(errs) > 0, errors |-> errs,
     error |-> updateResult.error]

\* what updateLeadCustomFields returns after updateLead
updateReturn(updateResult, payload, errs) ==
    IF ~updateResult.success
    THEN [success |-> FALSE, updatedFields |-> 0,
          errorsDefined |-> Len(errs) > 0, errors |-> errs,
          error |-> updateResult.error]
    ELSE [success |-> TRUE, updatedFields |-> Len(payload),
          errorsDefined |-> Len(errs) > 0, errors |-> errs,
          error |-> "none"]

\* the update call issued as soon as the payload holds an entry, with
\* entries still to be processed
UpdateLead_early ==
    /\ pc = "entry"
    /\ idx > 1
    /\ Len(customFieldsValues) > 0
    /\ \E outcome \in UpdateOutcomes :
          /\ result' = updateReturn(updateLead(outcome), customFieldsValues, errors)
          /\ requests' = Append(requests, PatchLeads(customFieldsValues, outcome = "ok"))
    /\ pc' = "done"
    /\ calls' = Append(calls, "updateLead")
    /\ UNCHANGED <<lead, catalog, fields, entries, idx, fieldId, nameToIdMap,
                   customFieldsValues, errors>>
    /\ UNCHANGED <<linkVars, pageVars, suspended>>

\* the update call preceded by a fresh read of the lead
UpdateLead_reread ==
    /\ pc = "entry"
    /\ idx > Len(entries)
    /\ Len(customFieldsValues) > 0
    /\ \E outcome \in UpdateOutcomes :
          /\ result' = updateReturn(updateLead(outcome), customFieldsValues, errors)
          /\ requests' = requests \o <<GetLead(TRUE),
                                       PatchLeads(customFieldsValues, outcome = "ok")>>
    /\ pc' = "done"
    /\ calls' = Append(calls, "updateLead")
    /\ UNCHANGED <<lead, catalog, fields, entries, idx, fieldId, nameToIdMap,
                   customFieldsValues, errors>>
    /\ UNCHANGED <<linkVars, pageVars, suspended>>

\* the update call repeated once when it fails
UpdateLead_retry ==
    /\ pc = "entry"
    /\ idx > Len(entries)
    /\ Len(customFieldsValues) > 0
    /\ \E outcome \in UpdateOutcomes :
          /\ result' = updateReturn(updateLead(outcome), customFieldsValues, errors)
          /\ requests' =
                IF outcome = "ok"
                THEN Append(requests, PatchLeads(customFieldsValues, TRUE))
                ELSE requests \o <<PatchLeads(customFieldsValues, FALSE),
                                   PatchLeads(customFieldsValues, FALSE)>>
    /\ pc' = "done"
    /\ calls' = Append(calls, "updateLead")
    /\ UNCHANGED <<lead, catalog, fields, entries, idx, fieldId, nameToIdMap,
                   customFieldsValues, errors>>
    /\ UNCHANGED <<linkVars, pageVars, suspended>>

\* the update call issued without looking at the payload's length
UpdateLead_unguarded ==
    /\ pc = "entry"
    /\ idx > Len(entries)
    /\ \E outcome \in UpdateOutcomes :
          /\ result' = updateReturn(updateLead(outcome), customFieldsValues, errors)
          /\ requests' = Append(requests, PatchLeads(customFieldsValues, outcome = "ok"))
    /\ pc' = "done"
    /\ calls' = Append(calls, "updateLead")
    /\ UNCHANGED <<lead, catalog, fields, entries, idx, fieldId, nameToIdMap,
                   customFieldsValues, errors>>
    /\ UNCHANGED <<linkVars, pageVars, suspended>>

\* lines 395-421: the loop is over and there is something to write
UpdateLead ==
    /\ pc = "entry"
    /\ idx > Len(entries)
    /\ Len(customFieldsValues) > 0
    /\ \E outcome \in UpdateOutcomes :
          /\ result' = updateReturn(updateLead(outcome), customFieldsValues, errors)
          /\ requests' = Append(requests, PatchLeads(customFieldsValues, outcome = "ok"))
    /\ pc' = "done"
    /\ calls' = Append(calls, "updateLead")
    /\ UNCHANGED <<lead, catalog, fields, entries, idx, fieldId, nameToIdMap,
                   customFieldsValues, errors>>
    /\ UNCHANGED <<linkVars, pageVars, suspended>>

\* lines 423-428: nothing could be mapped
ReturnNoFields ==
    /\ pc = "entry"
    /\ idx > Len(entries)
    /\ Len(customFieldsValues) = 0
    /\ result' = [success |-> FALSE, updatedFields |-> 0,
                  errorsDefined |-> TRUE, errors |-> errors,
                  error |-> "No fields could be mapped to field IDs"]
    /\ pc' = "done"
    /\ UNCHANGED <<lead, catalog, fields, entries, idx, fieldId, nameToIdMap,
                   customFieldsValues, errors, calls, requests>>
    /\ UNCHANGED <<linkVars, pageVars, suspended>>

Next ==
    \/ GetExistingFields
    \/ ResolveNumeric
    \/ ResolveByName
    \/ MatchOptions
    \/ UpdateLead
    \/ ReturnNoFields

Spec == Init /\ [][Next]_vars

\* ---------------------------------------------------------------------
\* updateLeadCustomFields beside another process that edits the CRM
\* ---------------------------------------------------------------------

\* the catalog after another process deleted the options of field 1
WithoutOptions(cat) ==
    [j \in 1..Len(cat) |-> IF cat[j].id = 1 THEN [cat[j] EXCEPT !.enums = <<>>] ELSE cat[j]]

\* another process, while the batch is between its first read and its
\* write, deletes the options of field 1 or clears the lead's values
ExternalChange ==
    /\ pc \in {"entry", "options"}
    /\ \/ /\ catalog' = WithoutOptions(catalog)
          /\ catalog' # catalog
          /\ UNCHANGED lead
       \/ /\ lead # <<>>
          /\ lead' = <<>>
          /\ UNCHANGED catalog
    /\ UNCHANGED <<fields, pc, entries, idx, fieldId, nameToIdMap,
                   customFieldsValues, errors, result, calls, requests>>
    /\ UNCHANGED <<linkVars, pageVars, suspended>>

NextStale ==
    \/ Next
    \/ ExternalChange

SpecStale == Init /\ [][NextStale]_vars

\* ---------------------------------------------------------------------
\* Two invocations of updateLeadCustomFields on the same lead, interleaved
\* at their awaits: one runs, the other waits with its locals in suspended
\* ---------------------------------------------------------------------

\* the locals of the running invocation, with the requests it has issued
Locals ==
    [fields |-> fields, pc |-> pc, entries |-> entries, idx |-> idx,
     fieldId |-> fieldId, nameToIdMap |-> nameToIdMap,
     customFieldsValues |-> customFieldsValues, errors |-> errors,
     result |-> result, requests |-> requests]

\* an invocation that has not run yet
NewInvocation(fs) ==
    [fields |-> fs, pc |-> "start", entries |-> <<>>, idx |-> 0,
     fieldId |-> undefined, nameToIdMap |-> <<>>,
     customFieldsValues |-> <<>>, errors |-> <<>>,
     result |-> NoResult, requests |-> <<>>]

\* the field maps of the two invocations: one key each
PairFieldMaps ==
    { << e >> : e \in { << <<"1">>, <<"A", "B">> >>,
                        << <<"C", "a">>, <<"d", "e", "f", " ", "a", "b", "c">> >>,
                        << <<"q", "q">>, <<"A", "B">> >>,
                        << <<>>, <<"z", "z">> >> } }

InitTwo ==
    /\ lead \in Leads
    /\ catalog \in Catalogs
    /\ fields \in PairFieldMaps
    /\ pc = "start"
    /\ entries = <<>>
    /\ idx = 0
    /\ fieldId = undefined
    /\ nameToIdMap = <<>>
    /\ customFieldsValues = <<>>
    /\ errors = <<>>
    /\ result = NoResult
    /\ calls = <<>>
    /\ requests = <<>>
    /\ suspended \in {NewInvocation(fs) : fs \in PairFieldMaps}
    /\ LinkIdle
    /\ PageIdle

\* the name map kept in one place for all invocations: the invocation that
\* resumes finds the map the other one left
Switch_sharedMap ==
    /\ suspended.pc \notin {"none", "done"}
    /\ suspended' = Locals
    /\ fields' = suspended.fields
    /\ pc' = suspended.pc
    /\ entries' = suspended.entries
    /\ idx' = suspended.idx
    /\ fieldId' = suspended.fieldId
    /\ customFieldsValues' = suspended.customFieldsValues
    /\ errors' = suspended.errors
    /\ result' = suspended.result
    /\ requests' = suspended.requests
    /\ UNCHANGED <<lead, catalog, calls, nameToIdMap>>
    /\ UNCHANGED <<linkVars, pageVars>>

\* the running invocation waits at its await and the other one resumes
Switch ==
    /\ suspended.pc \notin {"none", "done"}
    /\ suspended' = Locals
    /\ fields' = suspended.fields
    /\ pc' = suspended.pc
    /\ entries' = suspended.entries
    /\ idx' = suspended.idx
    /\ fieldId' = suspended.fieldId
    /\ nameToIdMap' = suspended.nameToIdMap
    /\ customFieldsValues' = suspended.customFieldsValues
    /\ errors' = suspended.errors
    /\ result' = suspended.result
    /\ requests' = suspended.requests
    /\ UNCHANGED <<lead, catalog, calls>>
    /\ UNCHANGED <<linkVars, pageVars>>

NextTwo ==
    \/ Next
    \/ Switch

SpecTwo == InitTwo /\ [][NextTwo]_vars

\* the answer to the p-th read: whether it was answered with what the
\* caller needs; a read that was never issued has no answer
answered(reads, p) == p <= Len(reads) /\ reads[p].ok

\* the loop of updateLeadCustomFields from entry k on, run without
\* interruption on the answers reads[p], reads[p + 1], ... : [payload, errors]
RECURSIVE runEntries(_, _, _, _, _, _)
runEntries(es, k, reads, p, map, acc) ==
    IF k > Len(es) THEN acc
    ELSE
      LET fieldKey == es[k][1]
          value == es[k][2]
      IN  IF ~isNaN(Number(fieldKey))
          THEN LET id == Number(fieldKey)
                   optionsResult ==
                       getSelectFieldOptions(id, getLeadCustomFieldsMetadata(answered(reads, p), catalog))
               IN  runEntries(es, k + 1, reads, p + 1, map,
                              IF Truthy(id)
                              THEN mainBranch(fieldKey, value, id, optionsResult,
                                              acc.payload, acc.errors)
                              ELSE fallbackBranch(fieldKey, value, id, optionsResult,
                                                  acc.payload, acc.errors))
          ELSE LET searchResult ==
                       searchLeadCustomField(fieldKey, getLeadCustomFields(answered(reads, p), lead))
                   id == IF searchResult.success /\ searchResult.field_id # undefined
                         THEN searchResult.field_id
                         ELSE mapGet(map, toLowerCase(fieldKey))
               IN  IF Truthy(id)
                   THEN runEntries(es, k + 1, reads, p + 2, map,
                                   mainBranch(fieldKey, value, id,
                                       getSelectFieldOptions(id,
                                           getLeadCustomFieldsMetadata(answered(reads, p + 1), catalog)),
                                       acc.payload, acc.errors))
                   ELSE runEntries(es, k + 1, reads, p + 1, map,
                                   [payload |-> acc.payload,
                                    errors  |-> Append(acc.errors, notFoundError(fieldKey))])

\* updateLeadCustomFields run alone on the field map fs and on the answers
\* recorded in log: the payload, the errors, and what is returned
runAlone(fs, log) ==
    LET reads == SelectSeq(log, LAMBDA r : r.method = "GET")
        writes == SelectSeq(log, LAMBDA r : r.method = "PATCH")
        existingFields == getLeadCustomFields(answered(reads, 1), lead)
        map == IF existingFields.success
               THEN buildNameToIdMap(existingFields.customFields) ELSE <<>>
        acc == runEntries(ObjectEntries(fs), 1, reads, 2, map,
                          [payload |-> <<>>, errors |-> <<>>])
        returned == IF Len(acc.payload) > 0
                    THEN updateReturn(updateLead(IF writes # <<>> /\ writes[1].ok
                                                 THEN "ok" ELSE "error"),
                                      acc.payload, acc.errors)
                    ELSE [success |-> FALSE, updatedFields |-> 0,
                          errorsDefined |-> TRUE, errors |-> acc.errors,
                          error |-> "No fields could be mapped to field IDs"]
    IN  [payload |-> acc.payload, errors |-> acc.errors,
         success |-> returned.success, updatedFields |-> returned.updatedFields,
         returnedErrors |-> returned.errors, writes |-> Len(writes)]

\* ---------------------------------------------------------------------
\* The matcher on its own: one batch of one numeric key, taken up where
\* the key has been resolved to field 1
\* ---------------------------------------------------------------------

\* option values of field 1, in the order of their enum ids 401, 402, ...
MatchOptionValues ==
    << <<"a", "b", "c", " ", "d", "e", "f">>,
       <<"x", "y", "z", "-", "a", "b", "c">>,
       <<"a", "b">>,
       <<"d", "e">> >>

\* raw values: words reordered, short words only, a short word beside a
\* long one, a long word no option has, double space and upper case,
\* punctuation, the empty text, blanks only
MatchRawValues ==
    { <<"d", "e", "f", " ", "a", "b", "c">>,
      <<"d", "e", " ", "a", "b">>,
      <<"a", "b", "c", " ", "z", "z">>,
      <<"a", "b", "c", " ", "q", "r", "s">>,
      <<"z", "z">>,
      <<"D", "E", "F", " ", " ", "x", "y", "z">>,
      <<"d", "e", "f", ",", "z", "z">>,
      <<>>,
      <<" ", " ">> }

\* the enums of field 1: up to MaxOptions of the values, in any order, all
\* with a sort or none with one
MatchEnums ==
    { [k \in 1..Len(q) |-> [id |-> 400 + q[k], value |-> MatchOptionValues[q[k]],
                            sort |-> IF sorted THEN 10 * (Len(q) - k) ELSE undefined]]
        : q \in UNION {Orderings(S) : S \in {T \in SUBSET (1..Len(MatchOptionValues)) :
                                               Cardinality(T) <= MaxOptions}},
          sorted \in BOOLEAN }

MatchCatalogs ==
    { << [id |-> 1, name |-> <<"C", "a">>, type |-> "select", enums |-> e] >>
        : e \in MatchEnums }

\* after GetExistingFields and ResolveNumeric on the field map {"1": raw} of
\* a lead without values
InitMatch ==
    /\ lead = <<>>
    /\ catalog \in MatchCatalogs
    /\ \E raw \in MatchRawValues :
          /\ fields = << << <<"1">>, raw >> >>
          /\ entries = << << <<"1">>, raw >> >>
    /\ pc = "options"
    /\ idx = 1
    /\ fieldId = 1
    /\ nameToIdMap = <<>>
    /\ customFieldsValues = <<>>
    /\ errors = <<>>
    /\ result = NoResult
    /\ calls = <<"getLeadCustomFields">>
    /\ requests = <<GetLead(TRUE)>>
    /\ suspended = NoSuspended
    /\ LinkIdle
    /\ PageIdle

NextMatch ==
    \/ MatchOptions
    \/ UpdateLead
    \/ ReturnNoFields

SpecMatch == InitMatch /\ [][NextMatch]_vars

\* ---------------------------------------------------------------------
\* The linking functions (leads/write.ts, contacts, deals/write.ts)
\* ---------------------------------------------------------------------

Callers == 1..MaxCallers

LinkFunctions ==
    {"linkLeadToContact", "linkProductToLead", "linkContactToCompany",
     "linkDealToContact", "linkDealToCompany"}

\* the id every call passes as contactId / companyId / productElementId
TargetId == 5

\* the to_entity_type each function writes and looks for
TargetType(fn) ==
    CASE fn \in {"linkLeadToContact", "linkDealToContact"} -> "contacts"
      [] fn = "linkProductToLead" -> "catalog_elements"
      [] fn \in {"linkContactToCompany", "linkDealToCompany"} -> "companies"

Target(fn) == [to_entity_id |-> TargetId, to_entity_type |-> TargetType(fn)]

\* links the source entity may hold before the calls: the target, an entity
\* of another type with the target's id, another entity of the target's type
LinkPool(fn) ==
    { Target(fn),
      [to_entity_id |-> TargetId,
       to_entity_type |-> IF TargetType(fn) = "contacts" THEN "companies" ELSE "contacts"],
      [to_entity_id |-> TargetId + 1, to_entity_type |-> TargetType(fn)] }

\* existingLinks.some(link => link.to_entity_id === id && link.to_entity_type === type)
isAlreadyLinked(existingLinks, id, type) ==
    \E link \in existingLinks : link.to_entity_id = id /\ link.to_entity_type = type

\* the functions that read the links before writing
ChecksLinks(fn) == fn # "linkDealToCompany"

NoLinkResult == [success |-> FALSE, error |-> "pending"]

\* entries of the linking calls' request log; linked: the answer of a GET
\* held the target
GetLinks(c, ok, linked) ==
    [caller |-> c, method |-> "GET", ok |-> ok, linked |-> linked]

PostLink(c, ok) ==
    [caller |-> c, method |-> "POST", ok |-> ok, linked |-> FALSE]

InitLink ==
    /\ UpdateIdle
    /\ PageIdle
    /\ linkFn \in LinkFunctions
    /\ links \in SUBSET LinkPool(linkFn)
    /\ linkPc = [c \in Callers |-> "start"]
    /\ linkResult = [c \in Callers |-> NoLinkResult]
    /\ linkRequests = <<>>

\* GET /{entity}/{id}/links and the isAlreadyLinked test
CheckLinks(c) ==
    /\ linkPc[c] = "start"
    /\ ChecksLinks(linkFn)
    /\ \E ok \in BOOLEAN :
          LET linked == ok /\ isAlreadyLinked(links, TargetId, TargetType(linkFn))
          IN  /\ linkRequests' = Append(linkRequests, GetLinks(c, ok, linked))
              /\ IF ~ok
                 THEN /\ linkPc' = [linkPc EXCEPT ![c] = "done"]
                      /\ linkResult' = [linkResult EXCEPT
                                           ![c] = [success |-> FALSE, error |-> "Link error"]]
                 ELSE IF linked
                 THEN /\ linkPc' = [linkPc EXCEPT ![c] = "done"]
                      /\ linkResult' = [linkResult EXCEPT
                                           ![c] = [success |-> TRUE, error |-> "none"]]
                 ELSE /\ linkPc' = [linkPc EXCEPT ![c] = "post"]
                      /\ UNCHANGED linkResult
    /\ UNCHANGED <<linkFn, links>>
    /\ UNCHANGED <<updateVars, pageVars, suspended>>

\* what the POST came to: created, refused with status 500, another failure
PostOutcomes == {"ok", "500", "error"}

\* the value returned after the POST; only linkContactToCompany takes a
\* status 500 for "already linked"
linkReturn(fn, outcome) ==
    IF outcome = "ok" \/ (outcome = "500" /\ fn = "linkContactToCompany")
    THEN [success |-> TRUE, error |-> "none"]
    ELSE [success |-> FALSE, error |-> "Link error"]

\* POST /{entity}/{id}/link after the check found the target missing
CreateLink(c) ==
    /\ linkPc[c] = "post"
    /\ \E outcome \in PostOutcomes :
          /\ links' = IF outcome = "ok" THEN links \cup {Target(linkFn)} ELSE links
          /\ linkResult' = [linkResult EXCEPT ![c] = linkReturn(linkFn, outcome)]
          /\ linkRequests' = Append(linkRequests, PostLink(c, outcome = "ok"))
    /\ linkPc' = [linkPc EXCEPT ![c] = "done"]
    /\ UNCHANGED linkFn
    /\ UNCHANGED <<updateVars, pageVars, suspended>>

\* linkDealToCompany: POST /leads/{id}/link at once
linkDealToCompany(c) ==
    /\ linkPc[c] = "start"
    /\ ~ChecksLinks(linkFn)
    /\ \E outcome \in PostOutcomes :
          /\ links' = IF outcome = "ok" THEN links \cup {Target(linkFn)} ELSE links
          /\ linkResult' = [linkResult EXCEPT ![c] = linkReturn(linkFn, outcome)]
          /\ linkRequests' = Append(linkRequests, PostLink(c, outcome = "ok"))
    /\ linkPc' = [linkPc EXCEPT ![c] = "done"]
    /\ UNCHANGED linkFn
    /\ UNCHANGED <<updateVars, pageVars, suspended>>

NextLink ==
    \E c \in Callers :
        \/ CheckLinks(c)
        \/ CreateLink(c)
        \/ linkDealToCompany(c)

SpecLink == InitLink /\ [][NextLink]_vars

\* ---------------------------------------------------------------------
\* normalizePagination (utils/pagination.ts)
\* ---------------------------------------------------------------------

MathMax(a, b) == IF a >= b THEN a ELSE b

MathMin(a, b) == IF a <= b THEN a ELSE b

\* v ?? d
nullish(v, d) == IF v = undefined THEN d ELSE v

\* the limit passed on as it came, without Kommo's maximum
normalizePagination_uncapped(p) ==
    [page  |-> MathMax(1, nullish(p.page, 1)),
     limit |-> MathMax(1, nullish(p.limit, 50))]

normalizePagination(p) ==
    [page  |-> MathMax(1, nullish(p.page, 1)),
     limit |-> MathMin(250, MathMax(1, nullish(p.limit, 50)))]

\* the integers a caller may pass, and undefined for an absent value
PageInputs == {undefined} \cup (-MaxPage..MaxPage)

LimitInputs == {undefined} \cup (-1..MaxLimit)

InitPagination ==
    /\ UpdateIdle
    /\ LinkIdle
    /\ params \in [page : PageInputs, limit : LimitInputs]
    /\ pagination = [page |-> undefined, limit |-> undefined]

\* a list operation normalizes its caller's params
NormalizePagination ==
    /\ pagination.page = undefined
    /\ pagination' = normalizePagination(params)
    /\ UNCHANGED params
    /\ UNCHANGED <<updateVars, linkVars, suspended>>

NextPagination == NormalizePagination

SpecPagination == InitPagination /\ [][NextPagination]_vars

\* ---------------------------------------------------------------------
\* Vocabulary of the properties
\* ---------------------------------------------------------------------

PatchRequests == SelectSeq(requests, LAMBDA r : r.method = "PATCH")

CatalogRequests == SelectSeq(requests, LAMBDA r : r.endpoint = "/leads/custom_fields")

Count(log, name) == Len(SelectSeq(log, LAMBDA c : c = name))

\* the enums the catalog holds for field id, when the catalog lists the
\* field as a select or multiselect
EnumsOf(id) ==
    UNION { {f.enums[k] : k \in 1..Len(f.enums)} :
              f \in {catalog[j] : j \in {j \in 1..Len(catalog) :
                        /\ catalog[j].id = id
                        /\ catalog[j].type \in {"select", "multiselect"}}} }

\* the five rules of the matching cascade, for an option value v and raw text
ExactRule(v, raw) == trim(toLowerCase(v)) = trim(toLowerCase(raw))

NormalizedExactRule(v, raw) == normalize(v) = normalize(raw)

SubstringRule(v, raw) ==
    \/ includes(trim(toLowerCase(v)), trim(toLowerCase(raw)))
    \/ includes(trim(toLowerCase(raw)), trim(toLowerCase(v)))

NormalizedSubstringRule(v, raw) ==
    \/ includes(normalize(v), normalize(raw))
    \/ includes(normalize(raw), normalize(v))

WordSubsetRule(v, raw) ==
    LET tokens == {w \in {split(normalize(raw))[k] : k \in 1..Len(split(normalize(raw)))} :
                     Len(w) > 2}
    IN  tokens # {} /\ \A w \in tokens : includes(normalize(v), w)

AnyRule(v, raw) ==
    \/ ExactRule(v, raw) \/ NormalizedExactRule(v, raw)
    \/ SubstringRule(v, raw) \/ NormalizedSubstringRule(v, raw)
    \/ WordSubsetRule(v, raw)

\* a step of the loop that handles the entry at idx after the catalog
\* answered for it
MatchStep == pc = "options" /\ pc' = "entry" /\ idx' = idx + 1

PayloadGrew == Len(customFieldsValues') = Len(customFieldsValues) + 1

NewPayloadEntry == customFieldsValues'[Len(customFieldsValues')]

CatalogAnswered == requests'[Len(requests')].ok

\* ---------------------------------------------------------------------
\* Properties
\* ---------------------------------------------------------------------

\* C1: when one option of an enumerated field equals the raw value
\* case-insensitively and another option merely contains it, the option
\* put into the payload is the exactly matching one, wherever the two
\* options stand in the sorted option list.
C1_ExactMatchWins ==
    [][ (MatchStep /\ PayloadGrew /\ NewPayloadEntry.enum_id # undefined) =>
          LET raw == entries[idx][2]
              es  == EnumsOf(NewPayloadEntry.field_id)
          IN  (\E a, b \in es :
                  /\ ExactRule(a.value, raw)
                  /\ ~ExactRule(b.value, raw)
                  /\ includes(toLowerCase(b.value), toLowerCase(raw)))
              => \E a \in es : /\ a.id = NewPayloadEntry.enum_id
                               /\ ExactRule(a.value, raw) ]_vars

\* C2 as stated: whatever the reads and the write answer, updatedFields
\* plus the number of returned errors is the number of input keys.
C2_TotalityAlways ==
    pc = "done" => result.updatedFields + Len(result.errors) = Len(fields)

\* C2 amended: every key ends as exactly one payload entry or one error
\* entry, and updatedFields plus the number of returned errors is the
\* number of input keys unless the update call failed.
C2_Totality ==
    pc = "done" =>
       /\ Len(customFieldsValues) + Len(result.errors) = Len(fields)
       /\ (\A k \in 1..Len(PatchRequests) : PatchRequests[k].ok)
             => result.updatedFields + Len(result.errors) = Len(fields)

\* a batch of two keys, one written and one reported, has returned
C2_Witness ==
    /\ pc = "done"
    /\ result.success
    /\ result.updatedFields = 1
    /\ Len(result.errors) = 1

\* C3: whenever option matching succeeds for a key, the payload entry
\* appended for it carries the matched catalog option's stored value string
\* and that same option's enum id, never the caller's raw text.
C3_CanonicalReemission ==
    [][ (MatchStep /\ PayloadGrew /\ NewPayloadEntry.enum_id # undefined) =>
          \E e \in EnumsOf(NewPayloadEntry.field_id) :
              /\ e.value = NewPayloadEntry.value
              /\ e.id = NewPayloadEntry.enum_id
              /\ AnyRule(e.value, entries[idx][2]) ]_vars

\* a payload entry holds an option that differs from the raw text of its
\* key in case and punctuation only
C3_Witness ==
    \E k \in 1..Len(customFieldsValues), j \in 1..Len(entries) :
        /\ customFieldsValues[k].enum_id # undefined
        /\ customFieldsValues[k].value # entries[j][2]
        /\ normalize(customFieldsValues[k].value) = normalize(entries[j][2])

\* C4: a key that parses as a number is resolved to that number as a
\* literal field id without a search of the snapshot by name, even when a
\* snapshot field's name or code contains the numeral.
C4_NumericPriority ==
    [][ /\ (pc = "entry" /\ idx <= Len(entries) /\ ~isNaN(Number(entries[idx][1])))
            => /\ pc' = "options"
               /\ fieldId' = Number(entries[idx][1])
               /\ calls' = calls
               /\ requests' = requests
        /\ (MatchStep /\ PayloadGrew /\ ~isNaN(Number(entries[idx][1])))
            => NewPayloadEntry.field_id = Number(entries[idx][1]) ]_vars

\* the numeric key "1" was written as field 1 although the snapshot, read
\* successfully, holds field 7 whose name contains "1"
C4_Witness ==
    /\ nameToIdMap # <<>>
    /\ \E j \in 1..Len(lead) :
          /\ lead[j].field_id = 7
          /\ includes(toLowerCase(lead[j].field_name), <<"1">>)
    /\ \E j \in 1..Len(entries) : entries[j][1] = <<"1">>
    /\ \E k \in 1..Len(customFieldsValues) : customFieldsValues[k].field_id = 1
    /\ Count(calls, "searchLeadCustomField") = 0
    /\ pc = "done"

\* C5: one invocation issues the update call exactly once, carrying the
\* whole payload, if a payload entry was built; it issues none and returns
\* success = false if the payload is empty; never more than one.
C5_WriteCallCount ==
    /\ Len(PatchRequests) <= 1
    /\ pc = "done" =>
          IF Len(customFieldsValues) > 0
          THEN /\ Len(PatchRequests) = 1
               /\ PatchRequests[1].body = customFieldsValues
          ELSE /\ Len(PatchRequests) = 0
               /\ ~result.success

\* a failed update call was not repeated
C5_Witness ==
    /\ pc = "done"
    /\ Len(PatchRequests) = 1
    /\ ~PatchRequests[1].ok
    /\ Len(PatchRequests[1].body) = 2

\* the keys of the field map that can never resolve: not numeric, and
\* contained in no name or code of the lead's fields
UnresolvableKeys ==
    {fields[j][1] : j \in {j \in 1..Len(fields) :
        /\ isNaN(Number(fields[j][1]))
        /\ \A n \in 1..Len(lead) :
              /\ ~includes(toLowerCase(lead[n].field_name), toLowerCase(fields[j][1]))
              /\ ~includes(toLowerCase(lead[n].field_code), toLowerCase(fields[j][1]))}}

ErrorKeys(errs) == {errs[k].field : k \in 1..Len(errs)}

\* C6: when some keys of a batch succeed and others fail and the write
\* succeeds, the single update call carries exactly the entries of the
\* succeeded keys and the outcome is success = true, updatedFields = the
\* number of succeeded keys, errors = the failed keys.
C6_PartialFailure ==
    (pc = "done" /\ Len(PatchRequests) = 1 /\ PatchRequests[1].ok) =>
       /\ result.success
       /\ PatchRequests[1].body = customFieldsValues
       /\ result.updatedFields = Len(fields) - Len(result.errors)
       /\ result.updatedFields = Len(customFieldsValues)
       /\ result.errorsDefined = (Len(result.errors) > 0)
       /\ Cardinality(ErrorKeys(result.errors)) = Len(result.errors)
       /\ UnresolvableKeys \subseteq ErrorKeys(result.errors)
       /\ ErrorKeys(result.errors) \subseteq {fields[j][1] : j \in 1..Len(fields)}

\* a batch with one key written and one unresolvable key has succeeded
C6_Witness ==
    /\ pc = "done"
    /\ result.success
    /\ result.updatedFields = 1
    /\ Len(PatchRequests) = 1
    /\ Len(PatchRequests[1].body) = 1
    /\ UnresolvableKeys # {}
    /\ ErrorKeys(result.errors) = UnresolvableKeys

\* C7: if the update call fails, the outcome is success = false with
\* updatedFields = 0, however many entries the payload held.
C7_WriteFailure ==
    (pc = "done" /\ \E k \in 1..Len(PatchRequests) : ~PatchRequests[k].ok) =>
       /\ ~result.success
       /\ result.updatedFields = 0

\* the update call failed with two entries in the payload
C7_Witness ==
    /\ pc = "done"
    /\ Len(PatchRequests) = 1
    /\ ~PatchRequests[1].ok
    /\ Len(customFieldsValues) = 2
    /\ result.updatedFields = 0

\* C8: within one invocation the field-metadata catalog is fetched at most
\* once, however many keys need it.
C8_CatalogFetchedOnce ==
    Len(CatalogRequests) <= 1

SortsBefore(a, b) ==
    IF a.sort # undefined /\ b.sort # undefined
    THEN a.sort <= b.sort
    ELSE ~localeLess(b.value, a.value)

\* C10: when the field of a key is enumerated and no option satisfies any
\* matching rule for the raw value, exactly one error entry is recorded for
\* the key, no payload entry is added, and the suggestions are at most the
\* first 5 option values in the catalog's sort order.
C10_NoMatch ==
    [][ (/\ MatchStep
         /\ CatalogAnswered
         /\ EnumsOf(IF Truthy(fieldId) THEN fieldId ELSE Number(entries[idx][1])) # {}
         /\ \A e \in EnumsOf(IF Truthy(fieldId) THEN fieldId ELSE Number(entries[idx][1])) :
               ~AnyRule(e.value, entries[idx][2]))
        => LET es  == EnumsOf(IF Truthy(fieldId) THEN fieldId ELSE Number(entries[idx][1]))
               err == errors'[Len(errors')]
               sug == err.suggestions
               in  == {e \in es : \E k \in 1..Len(sug) : sug[k] = e.value}
           IN  /\ customFieldsValues' = customFieldsValues
               /\ Len(errors') = Len(errors) + 1
               /\ SubSeq(errors', 1, Len(errors)) = errors
               /\ err.field = entries[idx][1]
               /\ err.kind = "not valid"
               /\ Len(sug) = (IF Cardinality(es) < 5 THEN Cardinality(es) ELSE 5)
               /\ Cardinality(in) = Len(sug)
               /\ \A a, b \in 1..Len(sug) : a < b =>
                      \E x, y \in es : /\ x.value = sug[a] /\ y.value = sug[b]
                                      /\ SortsBefore(x, y)
               /\ \A x \in in, y \in es \ in : SortsBefore(x, y) ]_vars

\* a value matching none of six options was rejected with five suggestions
C10_Witness ==
    \E k \in 1..Len(errors) :
        /\ errors[k].kind = "not valid"
        /\ Len(errors[k].suggestions) = 5
        /\ errors[k].ellipsis
        /\ Len(customFieldsValues) = 0
        /\ pc = "done"

\* the field id the entry at idx goes to option matching with
ResolvedId == IF Truthy(fieldId) THEN fieldId ELSE Number(entries[idx][1])

\* C11: for a resolved field id that is absent from the catalog, or present
\* with a type other than select/multiselect, the payload receives exactly
\* one entry with the caller's raw value and no enum_id, and no error is
\* recorded for the key.
C11_NotEnumerated ==
    [][ (/\ MatchStep
         /\ \A j \in 1..Len(catalog) :
               catalog[j].id = ResolvedId
                  => catalog[j].type \notin {"select", "multiselect"})
        => /\ customFieldsValues' =
                 Append(customFieldsValues,
                        [field_id |-> ResolvedId, value |-> entries[idx][2],
                         enum_id |-> undefined])
           /\ errors' = errors ]_vars

\* the radiobutton field 3 and the unlisted field 9 were both written as
\* plain text although the catalog answered
C11_Witness ==
    /\ pc = "done"
    /\ \A k \in 1..Len(CatalogRequests) : CatalogRequests[k].ok
    /\ \E k \in 1..Len(customFieldsValues) :
          /\ customFieldsValues[k].field_id = 3
          /\ customFieldsValues[k].enum_id = undefined
          /\ customFieldsValues[k].value = <<"A", "B">>
    /\ \E k \in 1..Len(customFieldsValues) :
          /\ customFieldsValues[k].field_id = 9
          /\ customFieldsValues[k].enum_id = undefined
    /\ errors = <<>>

\* no field of the lead's snapshot has a name or code containing the key
NotInSnapshot(key) ==
    \A n \in 1..Len(lead) :
        /\ ~includes(toLowerCase(lead[n].field_name), toLowerCase(key))
        /\ ~includes(toLowerCase(lead[n].field_code), toLowerCase(key))

RepeatsPreviousMatch ==
    /\ idx >= 2
    /\ ~isNaN(Number(entries[idx - 1][1]))
    /\ Number(entries[idx - 1][1]) = ResolvedId
    /\ entries[idx - 1][2] = entries[idx][2]

C14_PositiveFieldIds ==
    /\ pc = "options" => ResolvedId > 0
    /\ \A k \in 1..Len(customFieldsValues) : customFieldsValues[k].field_id > 0
    /\ \A r \in 1..Len(PatchRequests) :
          \A k \in 1..Len(PatchRequests[r].body) : PatchRequests[r].body[k].field_id > 0

\* the requests of one call of the linking function, in order
RequestsOf(c) == SelectSeq(linkRequests, LAMBDA r : r.caller = c)

\* C15: every linking function reads the source entity's links first and
\* issues the link-creating POST only when the answer did not hold the
\* target; a call that found the pair linked returns success and writes
\* nothing.
C15_LinkVerification ==
    \A c \in Callers :
        LET rs == RequestsOf(c)
        IN  /\ rs # <<>> => rs[1].method = "GET"
            /\ \A p \in 1..Len(rs) :
                  rs[p].method = "POST" =>
                      /\ p = 2
                      /\ rs[1].ok
                      /\ ~rs[1].linked
            /\ (rs # <<>> /\ rs[1].method = "GET" /\ rs[1].linked) =>
                  /\ Len(rs) = 1
                  /\ linkResult[c].success

\* C16: normalizePagination returns a page >= 1 and a limit in 1..250 for
\* every integer or absent page and limit; an absent page gives 1, an absent
\* limit gives 50, and a page >= 1 or a limit in 1..250 comes back unchanged.
C16_PaginationBounds ==
    pagination.page # undefined =>
        /\ pagination.page >= 1
        /\ pagination.limit >= 1
        /\ pagination.limit <= 250
        /\ params.page = undefined => pagination.page = 1
        /\ params.limit = undefined => pagination.limit = 50
        /\ (params.page # undefined /\ params.page >= 1) =>
              pagination.page = params.page
        /\ (params.limit # undefined /\ params.limit >= 1 /\ params.limit <= 250) =>
              pagination.limit = params.limit

\* page 0 and a limit above Kommo's maximum were normalized to 1 and 250
C16_Witness ==
    /\ params = [page |-> 0, limit |-> 251]
    /\ pagination = [page |-> 1, limit |-> 250]

\* the strictest rule of the cascade an option value satisfies: 1 exact,
\* 2 normalized exact, 3 substring, 4 normalized substring, 5 word-subset,
\* 6 none
RuleRank(v, raw) ==
    IF ExactRule(v, raw) THEN 1
    ELSE IF NormalizedExactRule(v, raw) THEN 2
    ELSE IF SubstringRule(v, raw) THEN 3
    ELSE IF NormalizedSubstringRule(v, raw) THEN 4
    ELSE IF WordSubsetRule(v, raw) THEN 5
    ELSE 6

\* C17: the option put into the payload satisfies the strictest rule that
\* any option of the field satisfies: no option of the field satisfies a
\* rule stricter than the strictest one the matched option satisfies.
C17_CascadePriority ==
    [][ (MatchStep /\ PayloadGrew /\ NewPayloadEntry.enum_id # undefined) =>
          LET raw == entries[idx][2]
              es  == EnumsOf(NewPayloadEntry.field_id)
          IN  \A m \in es :
                 m.id = NewPayloadEntry.enum_id =>
                    \A o \in es : RuleRank(m.value, raw) <= RuleRank(o.value, raw) ]_vars

\* positions of the snapshot fields whose lower-cased name or code contains
\* the lower-cased key
FieldsContaining(key) ==
    {n \in 1..Len(lead) :
        \/ includes(toLowerCase(lead[n].field_name), toLowerCase(key))
        \/ includes(toLowerCase(lead[n].field_code), toLowerCase(key))}

\* C18: when the snapshot is read for a non-numeric key, the key resolves to
\* the id of the first snapshot field whose lower-cased name or code
\* contains the lower-cased key, and resolves to nothing exactly when no
\* snapshot field contains it.
C18_ResolverNameSearch ==
    [][ (/\ pc = "entry" /\ idx <= Len(entries)
         /\ isNaN(Number(entries[idx][1]))
         /\ Len(requests') = Len(requests) + 1
         /\ requests'[Len(requests')].ok)
        => LET hits == FieldsContaining(entries[idx][1])
           IN  /\ hits # {} =>
                     /\ \E n \in hits :
                           /\ \A j \in hits : n <= j
                           /\ fieldId' = lead[n].field_id
                     /\ pc' = "options"
               /\ hits = {} => fieldId' = undefined
               /\ (fieldId' = undefined) <=> (hits = {}) ]_vars

\* the key "Ca", contained in the names of fields 1 and 8, was resolved to
\* field 1, the first of the two in the snapshot
C18_Witness ==
    /\ pc = "options"
    /\ entries[idx][1] = <<"C", "a">>
    /\ requests[Len(requests)].endpoint = "/leads/{id}"
    /\ requests[Len(requests)].ok
    /\ Cardinality(FieldsContaining(entries[idx][1])) = 2
    /\ fieldId = 1

\* the reads of the lead's snapshot issued so far
SnapshotRequests == SelectSeq(requests, LAMBDA r : r.endpoint = "/leads/{id}")

\* C19: one invocation reads the lead's snapshot once and performs exactly
\* two read calls in total, one for the snapshot and one for the catalog.
C19_OneSnapshotPerBatch ==
    /\ Len(SnapshotRequests) <= 1
    /\ pc = "done" /\ customFieldsValues # <<>> =>
          /\ Len(SnapshotRequests) = 1
          /\ Len(CatalogRequests) = 1

\* the tokens of the normalized raw value longer than 2 characters
LongTokens(raw) ==
    {w \in {split(normalize(raw))[k] : k \in 1..Len(split(normalize(raw)))} : Len(w) > 2}

\* C20: where no option satisfies one of the four stricter rules, an option
\* is matched exactly when the normalized raw value has a token longer than
\* 2 characters and every such token is a substring of an option's
\* normalized value, and the matched option is such an option; a raw value
\* without a token longer than 2 characters matches no option.
C20_WordSubsetRule ==
    [][ (/\ MatchStep
         /\ CatalogAnswered
         /\ EnumsOf(ResolvedId) # {}
         /\ \A o \in EnumsOf(ResolvedId) : RuleRank(o.value, entries[idx][2]) >= 5)
        => LET raw == entries[idx][2]
               es  == EnumsOf(ResolvedId)
               accepted == {o \in es :
                               /\ LongTokens(raw) # {}
                               /\ \A w \in LongTokens(raw) : includes(normalize(o.value), w)}
           IN  /\ accepted # {} =>
                     /\ PayloadGrew
                     /\ \E o \in accepted : NewPayloadEntry.enum_id = o.id
                     /\ errors' = errors
               /\ accepted = {} =>
                     /\ customFieldsValues' = customFieldsValues
                     /\ Len(errors') = Len(errors) + 1
               /\ LongTokens(raw) = {} => customFieldsValues' = customFieldsValues ]_vars

\* "abc zz" was matched to "abc def" by its one long token, the short token
\* "zz" being in no option, and no stricter rule applied to any option
C20_Witness ==
    /\ pc = "done"
    /\ entries = << << <<"1">>, <<"a", "b", "c", " ", "z", "z">> >> >>
    /\ \A o \in EnumsOf(1) : RuleRank(o.value, entries[1][2]) >= 5
    /\ \E o \in EnumsOf(1) : RuleRank(o.value, entries[1][2]) = 6
    /\ customFieldsValues =
          << [field_id |-> 1, value |-> <<"a", "b", "c", " ", "d", "e", "f">>,
              enum_id |-> 401] >>
    /\ errors = <<>>

\* position of a key in the field map as the caller wrote it, 0 if absent
PositionOf(key) ==
    IF \E n \in 1..Len(fields) : fields[n][1] = key
    THEN CHOOSE n \in 1..Len(fields) : fields[n][1] = key
    ELSE 0

\* C21: the entries are processed in the order the caller supplied them, so
\* the entry handled at each position of the loop is the caller's entry at
\* that position, and the error entries stand in the order of their keys in
\* the caller's map.
C21_ProcessingOrder ==
    /\ pc \notin {"start", "idle"} => entries = fields
    /\ \A a, b \in 1..Len(errors) :
          a < b => PositionOf(errors[a].field) < PositionOf(errors[b].field)

\* the entries whose payload entry or error has been recorded
Recorded == Len(customFieldsValues) + Len(errors)

\* C22: entries are handled one at a time: when an entry starts, every
\* entry before it has its payload entry or error recorded, and finishing
\* an entry records exactly one of the two; the update call is issued only
\* when every entry has been processed; no request follows the update call.
C22_SequentialPipeline ==
    [][ /\ (pc = "entry" /\ idx <= Len(entries)) => Recorded = idx - 1
        /\ pc = "options" => Recorded = idx - 1
        /\ (idx >= 1 /\ idx' # idx) =>
              /\ idx' = idx + 1
              /\ Len(customFieldsValues') + Len(errors') = Recorded + 1
        /\ Len(PatchRequests') > Len(PatchRequests) =>
              /\ idx > Len(entries)
              /\ Recorded = Len(entries)
        /\ PatchRequests # <<>> => requests' = requests ]_vars

\* a batch of two keys, one written and one reported, whose four reads all
\* precede the single update call
C22_Witness ==
    /\ pc = "done"
    /\ Len(entries) = 2
    /\ Len(customFieldsValues) = 1
    /\ Len(errors) = 1
    /\ Len(requests) >= 4
    /\ requests[Len(requests)].method = "PATCH"
    /\ \A k \in 1..(Len(requests) - 1) : requests[k].method = "GET"

\* C23: a change of the lead or the catalog by another process leaves the
\* batch where it stands, with the payload and the errors it has computed;
\* once the last entry is processed the batch's next step is the update
\* call with that payload, without a further read.
C23_UndetectedStaleness ==
    [][ /\ (lead' # lead \/ catalog' # catalog) =>
              UNCHANGED <<pc, idx, fieldId, nameToIdMap, customFieldsValues,
                          errors, result, requests>>
        /\ (/\ pc = "entry" /\ idx > Len(entries)
            /\ customFieldsValues # <<>>
            /\ pc' # pc)
           => /\ Len(requests') = Len(requests) + 1
              /\ requests'[Len(requests')].method = "PATCH"
              /\ requests'[Len(requests')].body = customFieldsValues
              /\ SubSeq(requests', 1, Len(requests)) = requests ]_vars

\* the options of field 1 were deleted after the batch had matched one of
\* them, and the batch wrote that option's enum id all the same
C23_Witness ==
    /\ pc = "done"
    /\ result.success
    /\ EnumsOf(1) = {}
    /\ \E k \in 1..Len(customFieldsValues) :
          /\ customFieldsValues[k].field_id = 1
          /\ customFieldsValues[k].enum_id # undefined
    /\ PatchRequests # <<>>
    /\ PatchRequests[1].body = customFieldsValues

\* a finished invocation has the payload, the errors and the outcome of a
\* run alone on its field map and on the answers it received
AsIfAlone(inv) ==
    LET alone == runAlone(inv.fields, inv.requests)
    IN  /\ inv.customFieldsValues = alone.payload
        /\ inv.errors = alone.errors
        /\ inv.result.success = alone.success
        /\ inv.result.updatedFields = alone.updatedFields
        /\ inv.result.errors = alone.returnedErrors
        /\ alone.writes = IF alone.payload = <<>> THEN 0 ELSE 1

\* C24: of two invocations interleaved at their awaits, each ends with the
\* payload, the error list and the outcome it would have had running alone
\* with the same answers to its reads and its write.
C24_InvocationIsolation ==
    /\ pc = "done" => AsIfAlone(Locals)
    /\ suspended.pc = "done" => AsIfAlone(suspended)

\* two invocations that both started before either went on, both finished:
\* one resolved its name key and wrote, the other reported its key
C24_Witness ==
    /\ pc = "done"
    /\ suspended.pc = "done"
    /\ Len(calls) >= 2
    /\ calls[1] = "getLeadCustomFields"
    /\ calls[2] = "getLeadCustomFields"
    /\ fields # suspended.fields
    /\ \E k \in 1..Len(errors) : errors[k].kind = "not found"
    /\ Len(suspended.customFieldsValues) = 1
    /\ suspended.fields[1][1] = <<"C", "a">>
    /\ suspended.result.success

\* the link-creating POSTs that were carried out
LinkPosts == SelectSeq(linkRequests, LAMBDA r : r.method = "POST" /\ r.ok)

\* C25: however the calls of one linking function for one pair interleave,
\* at most one link-creating POST is issued for the pair; stated for the
\* functions that read the links before they write, and counting only the
\* POSTs the CRM carried out.
C25_NoDuplicateLinks ==
    ChecksLinks(linkFn) => Len(LinkPosts) <= 1

\* C26: on a field with at least one option, an empty or blank raw value
\* satisfies the substring rule against every option, records no error, and
\* the payload entry carries the first option in the catalog's sort order.
C26_EmptyRawValue ==
    [][ (/\ MatchStep
         /\ CatalogAnswered
         /\ EnumsOf(ResolvedId) # {}
         /\ trim(entries[idx][2]) = <<>>)
        => LET es == EnumsOf(ResolvedId)
           IN  /\ \A o \in es : SubstringRule(o.value, entries[idx][2])
               /\ errors' = errors
               /\ PayloadGrew
               /\ SubSeq(customFieldsValues', 1, Len(customFieldsValues)) = customFieldsValues
               /\ \E o \in es :
                     /\ NewPayloadEntry =
                           [field_id |-> ResolvedId, value |-> o.value, enum_id |-> o.id]
                     /\ \A x \in es : SortsBefore(o, x) ]_vars

\* a raw value of two blanks on a field with the options "ab" (sort 10) and
\* "de" (sort 0) was written as "de", the first option by sort
C26_Witness ==
    /\ pc = "done"
    /\ entries[1][2] = <<" ", " ">>
    /\ \E j \in 1..Len(catalog) :
          /\ catalog[j].id = 1
          /\ Len(catalog[j].enums) = 2
          /\ catalog[j].enums[1].value = <<"a", "b">>
          /\ catalog[j].enums[1].sort = 10
          /\ catalog[j].enums[2].value = <<"d", "e">>
    /\ customFieldsValues =
          << [field_id |-> 1, value |-> <<"d", "e">>, enum_id |-> 404] >>
    /\ errors = <<>>

\* the batch is over and none of its reads of the lead was answered
SnapshotFailed ==
    /\ pc = "done"
    /\ \A k \in 1..Len(SnapshotRequests) : ~SnapshotRequests[k].ok

NumericKeys == {k \in 1..Len(entries) : ~isNaN(Number(entries[k][1]))}

\* C27 as stated: when the reads of the lead fail, every key that parses as
\* a number has a payload entry and the update call is attempted, and every
\* other key is reported as not found.
C27_SnapshotFailureAlways ==
    SnapshotFailed =>
       /\ \A k \in NumericKeys :
             \E n \in 1..Len(customFieldsValues) :
                customFieldsValues[n].field_id = Number(entries[k][1])
       /\ NumericKeys # {} => Len(PatchRequests) = 1
       /\ \A k \in (1..Len(entries)) \ NumericKeys :
             \E e \in 1..Len(errors) :
                errors[e].kind = "not found" /\ errors[e].field = entries[k][1]

\* C27 amended: when the reads of the lead fail the batch goes on: every key
\* that parses as a number is matched as usual and has a payload entry
\* under that number or, its value fitting no option of the field, a 'not
\* valid' error; every other key is reported as not found; every key is
\* accounted for; the update call is attempted exactly when the payload is
\* not empty.
C27_SnapshotFailure ==
    SnapshotFailed =>
       /\ Len(SnapshotRequests) >= 1
       /\ \A k \in NumericKeys :
             \/ \E n \in 1..Len(customFieldsValues) :
                   customFieldsValues[n].field_id = Number(entries[k][1])
             \/ \E e \in 1..Len(errors) :
                   /\ errors[e].kind = "not valid"
                   /\ errors[e].field = entries[k][1]
                   /\ \A o \in EnumsOf(Number(entries[k][1])) :
                         ~AnyRule(o.value, entries[k][2])
       /\ \A k \in (1..Len(entries)) \ NumericKeys :
             \E e \in 1..Len(errors) :
                errors[e].kind = "not found" /\ errors[e].field = entries[k][1]
       /\ Len(customFieldsValues) + Len(errors) = Len(entries)
       /\ Len(PatchRequests) = (IF customFieldsValues # <<>> THEN 1 ELSE 0)

\* no read of the lead was answered; the key "1" was written and the name
\* "Ca", which the lead's snapshot would have resolved, was reported
C27_Witness ==
    /\ SnapshotFailed
    /\ lead # <<>>
    /\ Len(entries) = 2
    /\ entries[1][1] = <<"1">>
    /\ entries[2][1] = <<"C", "a">>
    /\ Len(SnapshotRequests) = 2
    /\ Len(customFieldsValues) = 1
    /\ customFieldsValues[1].field_id = 1
    /\ errors[1].kind = "not found"
    /\ Len(PatchRequests) = 1

\* the catalog lists the field as a select or multiselect without options
ListedWithoutOptions(id) ==
    \E j \in 1..Len(catalog) :
        /\ catalog[j].id = id
        /\ catalog[j].type \in {"select", "multiselect"}
        /\ catalog[j].enums = <<>>

\* C28: when the catalog read for a key fails, or the catalog lists the
\* key's field with an empty option list, the raw value is appended to the
\* payload under the field id without enum_id and no error is recorded.
C28_CatalogFailure ==
    [][ (/\ MatchStep
         /\ (~CatalogAnswered \/ ListedWithoutOptions(ResolvedId)))
        => /\ customFieldsValues' =
                 Append(customFieldsValues,
                        [field_id |-> ResolvedId, value |-> entries[idx][2],
                         enum_id |-> undefined])
           /\ errors' = errors ]_vars

\* the catalog read failed for the multiselect field 2, none of whose
\* options fits "zz": "zz" was written as text
C28_Witness ==
    /\ pc = "done"
    /\ entries = << << <<"2">>, <<"z", "z">> >> >>
    /\ EnumsOf(2) # {}
    /\ Len(CatalogRequests) = 1
    /\ ~CatalogRequests[1].ok
    /\ customFieldsValues =
          << [field_id |-> 2, value |-> <<"z", "z">>, enum_id |-> undefined] >>
    /\ errors = <<>>
    /\ Len(PatchRequests) = 1

\* C29: the payload is not de-duplicated by field id: a matching step for a
\* field that already has a payload entry still appends its own entry and
\* keeps the earlier ones, the payload holds one entry per key that was not
\* reported, and a successful update call carries all of them and
\* updatedFields counts all of them.
C29_NoDeduplication ==
    [][ /\ (/\ MatchStep
            /\ errors' = errors
            /\ \E n \in 1..Len(customFieldsValues) :
                  customFieldsValues[n].field_id = ResolvedId)
           => /\ PayloadGrew
              /\ SubSeq(customFieldsValues', 1, Len(customFieldsValues)) = customFieldsValues
              /\ NewPayloadEntry.field_id = ResolvedId
        /\ pc' = "done" =>
              /\ Len(customFieldsValues') = Len(entries') - Len(errors')
              /\ result'.success =>
                    /\ result'.updatedFields = Len(customFieldsValues')
                    /\ PatchRequests'[1].body = customFieldsValues' ]_vars

\* the keys "1" and "Ca" both resolved to field 1: the one update call
\* carried two entries for field 1 and updatedFields is 2
C29_Witness ==
    /\ pc = "done"
    /\ result.success
    /\ result.updatedFields = 2
    /\ entries[1][1] = <<"1">>
    /\ entries[2][1] = <<"C", "a">>
    /\ Len(PatchRequests) = 1
    /\ Len(PatchRequests[1].body) = 2
    /\ PatchRequests[1].body[1].field_id = 1
    /\ PatchRequests[1].body[2].field_id = 1

====
